---------------------------- MODULE Spec2Model ----------------------------
(***************************************************************************)
(* promcache: an HTTP caching reverse proxy.                               *)
(*                                                                         *)
(*   internal/cache  (src/unnamed/part_002)  TTL cache: Get, Set, cleanup  *)
(*   internal/metrics (src/internal/server/server.go)  hit/miss counters   *)
(*   pkg/proxy       (src/unnamed/part_001)  HandleRequest, cache keys     *)
(*                                                                         *)
(* A Go string is a sequence of one-character strings, so that             *)
(* sort.Strings, strconv.ParseFloat and strconv.FormatInt are computed     *)
(* character by character, as the code computes them.  Durations and the   *)
(* clock are in whole seconds.                                             *)
(***************************************************************************)
EXTENDS Integers, Sequences, FiniteSets, TLC

VARIABLES
    cacheTTL,      \* Cache.ttl and HTTPCacheProxy.cacheTTL (set once, by New)
    items,         \* Cache.items: key -> Item
    readers,       \* requests holding Cache.mu for reading
    writer,        \* the holder of Cache.mu for writing, or NoOne
    now,           \* time.Now()
    tickerC,       \* the cleanup ticker's channel (capacity 1)
    cleanupPC,     \* where the startCleanup goroutine is
    pc,            \* per request handler: where HandleRequest is
    req,           \* per request handler: the inbound request r
    cacheKey,      \* per request handler: local cacheKey
    got,           \* per request handler: the result of cache.Get (data, found)
    upstream,      \* per request handler: the outcome of the upstream call
    calls,         \* per request handler: client.Do calls made for this request
    response,      \* per request handler: what was written to w
    kin,           \* key generation alone: the inputs
    kout,          \* key generation alone: the keys computed
    cacheHits,     \* metrics: the counter promcache_cache_hits_total
    cacheMisses,   \* metrics: the counter promcache_cache_misses_total
    origin,        \* history: per stored key, the upstream response behind the
                   \* entry and the time of its Set
    cpc,           \* the cache alone: per caller, the Cache method it is in
    carg,          \* the cache alone: per caller, the arguments of the call
    cret,          \* the cache alone: per caller, what the last call returned
    mainPC         \* where main is: serving, in srv.Shutdown, or returned

vars == <<cacheTTL, items, readers, writer, now, tickerC, cleanupPC, pc, req,
          cacheKey, got, upstream, calls, response, kin, kout, cacheHits,
          cacheMisses, origin, cpc, carg, cret, mainPC>>

cacheVars == <<items, readers, writer>>
sweepVars == <<tickerC, cleanupPC>>
handlerVars == <<pc, req, cacheKey, got, upstream, calls, response>>
keyVars == <<kin, kout>>
metricsVars == <<cacheHits, cacheMisses>>
clientVars == <<cpc, carg, cret>>

-----------------------------------------------------------------------------
(* Go strings                                                              *)

\* The characters the model's strings are made of, in ASCII order.
AsciiOrder ==
    <<"&", "+", "-", ".", "/", "0", "1", "2", "3", "4", "5", "6", "7", "8",
      "9", ":", "=", "E", "G", "O", "P", "S", "T", "a", "b", "c", "d", "e",
      "g", "i", "m", "n", "p", "q", "r", "s", "t", "u", "y">>

Chars == {AsciiOrder[i] : i \in 1..Len(AsciiOrder)}

\* The rank of a character: the order of its byte.
Ord == [c \in Chars |-> CHOOSE i \in 1..Len(AsciiOrder) : AsciiOrder[i] = c]

Digits == {"0", "1", "2", "3", "4", "5", "6", "7", "8", "9"}

\* a < b for Go strings: bytewise lexicographic.
RECURSIVE StrLess(_, _)
StrLess(a, b) ==
    IF b = <<>> THEN FALSE
    ELSE IF a = <<>> THEN TRUE
    ELSE IF a[1] # b[1] THEN Ord[a[1]] < Ord[b[1]]
    ELSE StrLess(Tail(a), Tail(b))

\* v inserted into the sorted sequence s.
RECURSIVE InsertSorted(_, _)
InsertSorted(s, v) ==
    IF s = <<>> THEN <<v>>
    ELSE IF StrLess(v, Head(s)) THEN <<v>> \o s
    ELSE <<Head(s)>> \o InsertSorted(Tail(s), v)

\* sort.Strings
RECURSIVE SortStrings(_)
SortStrings(s) ==
    IF s = <<>> THEN <<>>
    ELSE InsertSorted(SortStrings(Tail(s)), Head(s))

\* The elements of a finite set of strings, sorted.
RECURSIVE SortedSeqOf(_)
SortedSeqOf(S) ==
    IF S = {} THEN <<>>
    ELSE LET x == CHOOSE y \in S : TRUE
         IN InsertSorted(SortedSeqOf(S \ {x}), x)

\* The value of a sequence of decimal digits.
RECURSIVE DigitsVal(_)
DigitsVal(s) ==
    IF s = <<>> THEN 0
    ELSE DigitsVal(SubSeq(s, 1, Len(s) - 1)) * 10 + (Ord[s[Len(s)]] - Ord["0"])

\* The decimal digits of n >= 0.
RECURSIVE NatDigits(_)
NatDigits(n) ==
    IF n < 10 THEN <<AsciiOrder[Ord["0"] + n]>>
    ELSE NatDigits(n \div 10) \o <<AsciiOrder[Ord["0"] + (n % 10)]>>

\* strconv.FormatInt(n, 10)
FormatInt(n) == IF n < 0 THEN <<"-">> \o NatDigits(-n) ELSE NatDigits(n)

\* strconv.ParseFloat(s, 64) on the decimal forms [+-]digits[.digits]: err, or
\* the number as sign, whole part and fraction digits.  (Exponents, hex floats,
\* "inf" and "nan" are not among the strings the model's requests carry.)
ParseFloat(s) ==
    LET signed == s # <<>> /\ s[1] \in {"+", "-"}
        mant == IF signed THEN Tail(s) ELSE s
        dots == {i \in 1..Len(mant) : mant[i] = "."}
        dot == IF dots = {} THEN Len(mant) + 1 ELSE CHOOSE i \in dots : TRUE
        whole == SubSeq(mant, 1, dot - 1)
        frac == SubSeq(mant, dot + 1, Len(mant))
        ok == /\ Cardinality(dots) <= 1
              /\ \A i \in 1..Len(whole) : whole[i] \in Digits
              /\ \A i \in 1..Len(frac) : frac[i] \in Digits
              /\ Len(whole) + Len(frac) > 0
    IN IF ok
       THEN [err |-> FALSE, neg |-> (signed /\ s[1] = "-"),
             whole |-> DigitsVal(whole), frac |-> frac]
       ELSE [err |-> TRUE, neg |-> FALSE, whole |-> 0, frac |-> <<>>]

\* int64(f): a float converted to an integer loses its fraction (truncation
\* towards zero).
Int64(f) == IF f.neg THEN -f.whole ELSE f.whole

\* a / b on Go integers, b > 0: the quotient truncated towards zero.
GoDiv(a, b) == IF a >= 0 THEN a \div b ELSE -((-a) \div b)


-----------------------------------------------------------------------------
(* Cache keys (pkg/proxy)                                                  *)

StrTime == <<"t", "i", "m", "e">>
StrStart == <<"s", "t", "a", "r", "t">>
StrEnd == <<"e", "n", "d">>

\* r.URL.Query(): the request's parameters, a pair <<name, value>> each in the
\* order of the query string, as url.Values: name -> its values in that order.
Query(rawQuery) ==
    LET names == {rawQuery[i][1] : i \in 1..Len(rawQuery)}
        valuesOf(n) ==
            LET F[i \in 0..Len(rawQuery)] ==
                    IF i = 0 THEN <<>>
                    ELSE IF rawQuery[i][1] = n
                         THEN Append(F[i - 1], rawQuery[i][2])
                         ELSE F[i - 1]
            IN F[Len(rawQuery)]
    IN [n \in names |-> valuesOf(n)]

\* url.Values.Get: the first value of the parameter, "" when it has none.
ValuesGet(query, name) ==
    IF name \in DOMAIN query /\ Len(query[name]) > 0 THEN query[name][1] ELSE <<>>

\* url.Values.Set: the parameter's values replaced by the one value.
ValuesSet(query, name, value) ==
    [n \in DOMAIN query \cup {name} |-> IF n = name THEN <<value>> ELSE query[n]]

\* roundTimeParameter without its roundUp branch.
roundTimeParameter_AlwaysDown(query, paramName, ttlSeconds, roundUp) ==
    LET paramStr == ValuesGet(query, paramName)
        paramTime == ParseFloat(paramStr)
        roundedTime == GoDiv(Int64(paramTime), ttlSeconds) * ttlSeconds
    IN IF paramStr = <<>> THEN query
       ELSE IF paramTime.err THEN query
       ELSE ValuesSet(query, paramName, FormatInt(roundedTime))

\* roundTimeParameter: the query after the call.
roundTimeParameter(query, paramName, ttlSeconds, roundUp) ==
    LET paramStr == ValuesGet(query, paramName)
        paramTime == ParseFloat(paramStr)
        roundedTime ==
            IF roundUp
            THEN GoDiv(Int64(paramTime) + ttlSeconds - 1, ttlSeconds) * ttlSeconds
            ELSE GoDiv(Int64(paramTime), ttlSeconds) * ttlSeconds
    IN IF paramStr = <<>> THEN query
       ELSE IF paramTime.err THEN query
       ELSE ValuesSet(query, paramName, FormatInt(roundedTime))

\* normalizeQueryString
normalizeQueryString(query) ==
    LET keys == SortedSeqOf(DOMAIN query)
        \* what the inner loop writes for the i-th key
        inner(i) ==
            LET k == keys[i]
                values == SortStrings(query[k])
                W[j \in 0..Len(values)] ==
                    IF j = 0 THEN <<>>
                    ELSE W[j - 1]
                         \o (IF i > 1 \/ j > 1 THEN <<"&">> ELSE <<>>)
                         \o k \o <<"=">> \o values[j]
            IN W[Len(values)]
        B[i \in 0..Len(keys)] == IF i = 0 THEN <<>> ELSE B[i - 1] \o inner(i)
    IN IF DOMAIN query = {} THEN <<>> ELSE B[Len(keys)]

\* generateCacheKey, for the proxy's cacheTTL ttl
generateCacheKey(r, ttl) ==
    LET query == Query(r.rawQuery)
        ttlSeconds == ttl
        q1 == roundTimeParameter(query, StrTime, ttlSeconds, FALSE)
        q2 == roundTimeParameter(q1, StrStart, ttlSeconds, FALSE)
        q3 == roundTimeParameter(q2, StrEnd, ttlSeconds, TRUE)
        rounded == IF ttlSeconds > 0 THEN q3 ELSE query
    IN r.method \o <<":">> \o r.path \o <<":">> \o normalizeQueryString(rounded)

-----------------------------------------------------------------------------
(* Key generation alone: generateCacheKey applied to bounded inputs        *)

\* Integer parameter values range over -MaxV..MaxV.
MaxV == 7

\* The default of the -ttl flag, 5*time.Minute, in seconds.
DefaultTTLSeconds == 300

\* The proxy's cacheTTL, in whole seconds (int64(cacheTTL.Seconds())): one below
\* a second, a small one, the default.
KeyTTLs == {0, 3, DefaultTTLSeconds}

StrGET == <<"G", "E", "T">>
StrPOST == <<"P", "O", "S", "T">>
StrLowerGet == <<"g", "e", "t">>
StrPath == <<"/", "a", "p", "i", "/", "q">>
StrQ == <<"q">>
StrUp == <<"u", "p">>
StrAbc == <<"a", "b", "c">>

\* Values a time parameter is given: every integer of the range, the values of
\* the documented examples, fractions, a non-number and the empty string.
KeyValues ==
    {FormatInt(n) : n \in -MaxV..MaxV}
    \cup {FormatInt(1000), FormatInt(950), FormatInt(900), FormatInt(1200)}
    \cup {<<"9", "0", "0", ".", "5">>, <<"0", ".", "5">>, <<"-", "0", ".", "5">>,
          <<"-", "4", ".", "5">>, StrAbc, <<>>}

KeyNames == {StrTime, StrStart, StrEnd, StrQ}

\* Query strings of one parameter, of two and of three (a parameter may repeat).
KeyQueries1 == {<< <<n, v>> >> : n \in KeyNames, v \in KeyValues}

KeyPairs2 ==
    {<<n, v>> : n \in {StrStart, StrEnd, StrQ},
                v \in {FormatInt(1), FormatInt(5), StrAbc, <<>>}}

KeyQueries2 == {<<e1, e2>> : e1 \in KeyPairs2, e2 \in KeyPairs2}

KeyPairs3 ==
    {<<StrQ, StrUp>>, <<StrQ, StrAbc>>, <<StrStart, FormatInt(5)>>,
     <<StrStart, FormatInt(1)>>}

KeyQueries3 ==
    {<<e1, e2, e3>> : e1 \in KeyPairs3, e2 \in KeyPairs3, e3 \in KeyPairs3}

KeyQueries == KeyQueries1 \cup KeyQueries2 \cup KeyQueries3

\* The query strings that carry the parameters of q in another order.
Reorderings(q) ==
    LET n == Len(q)
        perms == {f \in [1..n -> 1..n] : \A i, j \in 1..n : f[i] = f[j] => i = j}
    IN {[i \in 1..n |-> q[f[i]]] : f \in perms}

\* The integers among KeyValues.
KeyIntegers == (-MaxV..MaxV) \cup {900, 950, 1000, 1200}

\* Differences of less than one TTL between the time values of two requests.
SkewSteps(ttl) == {d \in {-1, 1, 2, 50, 299} : -ttl < d /\ d < ttl}

\* The query strings that carry the one time parameter of q with a value less
\* than one TTL away.
Skewed(q, ttl) ==
    IF Len(q) = 1 /\ q[1][1] \in {StrTime, StrStart, StrEnd}
    THEN {<< <<q[1][1], FormatInt(v + d)>> >> :
             v \in {w \in KeyIntegers : FormatInt(w) = q[1][2]},
             d \in SkewSteps(ttl)}
    ELSE {}

\* The query string of one parameter whose value spells out the second
\* parameter of q (sent as n1=v1%26n2%3Dv2).
Joined(q) ==
    IF Len(q) = 2
    THEN {<< <<q[1][1], q[1][2] \o <<"&">> \o q[2][1] \o <<"=">> \o q[2][2]>> >>}
    ELSE {}

\* The second request of a pair: the first one reordered, skewed or joined.
Variants(q, ttl) == Reorderings(q) \cup Skewed(q, ttl) \cup Joined(q)

-----------------------------------------------------------------------------
(* The TTL cache (internal/cache)                                          *)

NoOne == "none"
CleanupTask == "cleanup"
\* The nil value Get returns with found = false.
\* Cache.Get between RLock and RUnlock: (data, found)
NoData == [nil |-> TRUE]

\* Get with the expiry test off by one: an entry is gone at its expiresAt.
CacheGet_ExpiredAtDeadline(its, key, t) ==
    IF key \notin DOMAIN its THEN [data |-> NoData, found |-> FALSE]
    ELSE IF t >= its[key].Expiration THEN [data |-> NoData, found |-> FALSE]
    ELSE [data |-> its[key].Value, found |-> TRUE]

\* A Get that returns an entry whatever its Expiration.
CacheGet_NoExpiry(its, key, t) ==
    IF key \notin DOMAIN its THEN [data |-> NoData, found |-> FALSE]
    ELSE [data |-> its[key].Value, found |-> TRUE]

\* Cache.Get between RLock and RUnlock: what it returns at time t
CacheGet(its, key, t) ==
    IF key \notin DOMAIN its THEN [data |-> NoData, found |-> FALSE]
    ELSE IF t > its[key].Expiration THEN [data |-> NoData, found |-> FALSE]
    ELSE [data |-> its[key].Value, found |-> TRUE]

\* A Set that leaves an entry that is already there.
CacheSet_KeepExisting(its, key, value, t, ttl) ==
    [k \in DOMAIN its \cup {key} |->
        IF k \in DOMAIN its THEN its[k]
        ELSE [Value |-> value, Expiration |-> t + ttl]]

\* Cache.Set between Lock and Unlock: the items after it
CacheSet(its, key, value, t, ttl) ==
    [k \in DOMAIN its \cup {key} |->
        IF k = key THEN [Value |-> value, Expiration |-> t + ttl] ELSE its[k]]

\* A sweep that also deletes the entries that expire at this very instant.
CacheCleanup_AtDeadline(its, t) ==
    [k \in {x \in DOMAIN its : ~(t >= its[x].Expiration)} |-> its[k]]

\* Cache.cleanup between Lock and Unlock: the items after it
CacheCleanup(its, t) ==
    [k \in {x \in DOMAIN its : ~(t > its[x].Expiration)} |-> its[k]]

\* Cache.Delete between Lock and Unlock: the items after it
CacheDelete(its, key) == [k \in DOMAIN its \ {key} |-> its[k]]

\* Cache.Keys between RLock and RUnlock: the slices it may return, the keys of
\* the map in the order the range over it happens to take.
CacheKeys(its) ==
    LET n == Cardinality(DOMAIN its)
    IN {ks \in [1..n -> DOMAIN its] : \A i, j \in 1..n : ks[i] = ks[j] => i = j}

\* Cache.mu: RLock succeeds while no writer holds it and the sweep is not
\* blocked in Lock (a blocked Lock keeps new readers out), Lock while nobody
\* holds it.
CanRLock == writer = NoOne /\ cleanupPC # "cleanup"
\* A Lock that does not wait for the readers to leave.
CanLock_IgnoreReaders == writer = NoOne

CanLock == writer = NoOne /\ readers = {}

\* The cache alone: the goroutines that call it, the keys and the values they
\* pass.
Clients == {"c1", "c2"}
StoreKeys == {<<"a">>, <<"b">>}
StoreValues == {"v1", "v2"}
NoValue == "nil"
NoArgs == [key |-> <<>>, value |-> NoValue]
NoReturn == [void |-> TRUE]

-----------------------------------------------------------------------------
(* HTTP headers and responses                                              *)

EmptyHeader == [n \in {} |-> <<>>]

\* http.Header.Add of every value of h to the header w
HeaderAddAll(w, h) ==
    [n \in DOMAIN w \cup DOMAIN h |->
        (IF n \in DOMAIN w THEN w[n] ELSE <<>>) \o (IF n \in DOMAIN h THEN h[n] ELSE <<>>)]

\* http.Header.Set
HeaderSet(w, name, value) ==
    [n \in DOMAIN w \cup {name} |-> IF n = name THEN <<value>> ELSE w[n]]

\* The lower case of a header name (strings.EqualFold compares under case folding).
ToLower(name) ==
    CASE name = "Date" -> "date"
      [] name = "Connection" -> "connection"
      [] name = "Transfer-Encoding" -> "transfer-encoding"
      [] name = "Keep-Alive" -> "keep-alive"
      [] name = "Content-Type" -> "content-type"
      [] name = "X-Cache" -> "x-cache"
      [] name = "Vary" -> "vary"
      [] OTHER -> name

EqualFold(a, b) == ToLower(a) = ToLower(b)

\* The list without its last name.
skipCacheHeaders_NoKeepAlive == <<"Date", "Connection", "Transfer-Encoding">>

skipCacheHeaders == <<"Date", "Connection", "Transfer-Encoding", "Keep-Alive">>

StatusOK == 200
StatusInternalServerError == 500
StatusBadGateway == 502

\* What a handler has written to its http.ResponseWriter.
NoResponse == [sent |-> FALSE, status |-> 0, headers |-> EmptyHeader, body |-> ""]

\* http.Error(w, msg, code) on a fresh ResponseWriter
HttpError(msg, code) ==
    [sent |-> TRUE, status |-> code,
     headers |-> [n \in {"Content-Type", "X-Content-Type-Options"} |->
                    IF n = "Content-Type" THEN <<"text/plain; charset=utf-8">>
                    ELSE <<"nosniff">>],
     body |-> msg]

\* encoding/json on a Response: the struct's fields under their json names, the
\* body ([]byte) as base64 text.
Base64Encode(b) == <<"base64", b>>
Base64Decode(e) == e[2]

jsonMarshal(cachedResp) ==
    [headers |-> cachedResp.Headers,
     status_code |-> cachedResp.StatusCode,
     body |-> Base64Encode(cachedResp.Body)]

jsonUnmarshal(data) ==
    IF DOMAIN data = {"headers", "status_code", "body"}
    THEN [err |-> FALSE,
          Headers |-> data.headers,
          StatusCode |-> data.status_code,
          Body |-> Base64Decode(data.body)]
    ELSE [err |-> TRUE, Headers |-> EmptyHeader, StatusCode |-> 0, Body |-> ""]

\* cacheResponse: the Response built from the upstream response, serialized
shouldSkip(name) ==
    \E i \in 1..Len(skipCacheHeaders) : EqualFold(name, skipCacheHeaders[i])

cachedData(resp) ==
    jsonMarshal([Headers |-> [n \in {x \in DOMAIN resp.Header : ~shouldSkip(x)} |->
                                 resp.Header[n]],
                 StatusCode |-> resp.StatusCode,
                 Body |-> resp.Body])

\* writeResponse: what the caller is sent for the upstream response
writeResponse(resp) ==
    [sent |-> TRUE, status |-> resp.StatusCode,
     headers |-> HeaderSet(HeaderAddAll(EmptyHeader, resp.Header), "X-Cache", "MISS"),
     body |-> resp.Body]

\* A hit served without the stored headers.
serveCached_NoStoredHeaders(cachedResp) ==
    [sent |-> TRUE, status |-> cachedResp.StatusCode,
     headers |-> HeaderSet(EmptyHeader, "X-Cache", "HIT"),
     body |-> cachedResp.Body]

\* tryServeCachedResponse, found: what the caller is sent for the entry
serveCached(cachedResp) ==
    [sent |-> TRUE, status |-> cachedResp.StatusCode,
     headers |-> HeaderSet(HeaderAddAll(EmptyHeader, cachedResp.Headers), "X-Cache", "HIT"),
     body |-> cachedResp.Body]

-----------------------------------------------------------------------------
(* The proxy's handlers, the clock and the cleanup task                    *)

\* The goroutines serving inbound requests, one request at a time each.
Procs == {"h1", "h2"}

\* The clock runs from 0 to MaxTime.
MaxTime == 3

\* The TTL the proxy is started with (-ttl), in seconds.
ProxyTTLs == {2}

\* Inbound requests under /api/.
ProxyRequests ==
    {[method |-> StrGET, path |-> StrPath, rawQuery |-> << <<StrStart, FormatInt(3)>> >>],
     [method |-> StrGET, path |-> StrPath, rawQuery |-> << <<StrStart, FormatInt(2)>> >>],
     [method |-> StrPOST, path |-> StrPath, rawQuery |-> << <<StrStart, FormatInt(3)>> >>]}

NoRequest == [method |-> <<>>, path |-> <<>>, rawQuery |-> <<>>]

\* Responses the upstream gives (as client.Do returns them: header names in
\* canonical form).
UpstreamResponses ==
    {[StatusCode |-> 200, Body |-> "A",
      Header |-> ("Content-Type" :> <<"application/json">>) @@ ("Date" :> <<"d1">>)
                 @@ ("Connection" :> <<"keep-alive">>)
                 @@ ("Transfer-Encoding" :> <<"chunked">>)
                 @@ ("Keep-Alive" :> <<"timeout=5">>)],
     [StatusCode |-> 200, Body |-> "B",
      Header |-> ("Content-Type" :> <<"application/json">>) @@ ("X-Cache" :> <<"MISS">>)
                 @@ ("Vary" :> <<"Accept", "Origin">>)],
     [StatusCode |-> 503, Body |-> "unavailable",
      Header |-> ("Content-Type" :> <<"text/plain">>) @@ ("Date" :> <<"d2">>)]}

\* How forwarding a request can end: the upstream request cannot be built
\* (prepareUpstreamRequest fails), client.Do fails, io.ReadAll of the response
\* body fails, or the response is read.
Outcome(kind, resp) ==
    [kind |-> kind, StatusCode |-> resp.StatusCode, Header |-> resp.Header,
     Body |-> resp.Body]

NoUpstream == [StatusCode |-> 0, Header |-> EmptyHeader, Body |-> ""]

UpstreamOutcomes ==
    {Outcome("prepareError", NoUpstream), Outcome("transportError", NoUpstream)}
    \cup {Outcome("readError", [r EXCEPT !.Body = ""]) :
             r \in {x \in UpstreamResponses : x.Body = "A"}}
    \cup {Outcome("response", r) : r \in UpstreamResponses}

NotComputed == <<>>

\* Every method taken as cacheable.
isCacheable_AnyMethod(r) == TRUE

\* HandleRequest: isCacheable
isCacheable(r) == r.method = StrGET

\* HandleRequest up to the cache lookup: the key is generated, the request is
\* classified.
Arrive(p, r) ==
    /\ pc[p] \in {"idle", "done"}
    /\ req' = [req EXCEPT ![p] = r]
    /\ cacheKey' = [cacheKey EXCEPT ![p] = generateCacheKey(r, cacheTTL)]
    /\ got' = [got EXCEPT ![p] = [data |-> NoData, found |-> FALSE]]
    /\ upstream' = [upstream EXCEPT ![p] = Outcome("none", NoUpstream)]
    /\ calls' = [calls EXCEPT ![p] = 0]
    /\ response' = [response EXCEPT ![p] = NoResponse]
    /\ pc' = [pc EXCEPT ![p] = IF isCacheable(r) THEN "tryServe" ELSE "forward"]
    /\ UNCHANGED <<cacheTTL, mainPC, metricsVars, clientVars, origin, cacheVars, now, sweepVars, keyVars>>

\* tryServeCachedResponse: cache.Get takes the read lock.
GetRLock(p) ==
    /\ pc[p] = "tryServe"
    /\ CanRLock
    /\ readers' = readers \cup {p}
    /\ pc' = [pc EXCEPT ![p] = "inGet"]
    /\ UNCHANGED <<cacheTTL, mainPC, metricsVars, clientVars, origin, items, writer, now, sweepVars, req, cacheKey, got,
                   upstream, calls, response, keyVars>>

\* tryServeCachedResponse: cache.Get looks the key up and releases the lock; a
\* found entry is deserialized and served, otherwise the request is forwarded.
GetRUnlock(p) ==
    LET g == CacheGet(items, cacheKey[p], now)
        cachedResp == jsonUnmarshal(g.data)
        served == g.found /\ ~cachedResp.err
    IN /\ pc[p] = "inGet"
       /\ readers' = readers \ {p}
       /\ got' = [got EXCEPT ![p] = g]
       /\ response' = [response EXCEPT ![p] =
                          IF served THEN serveCached(cachedResp) ELSE NoResponse]
       /\ pc' = [pc EXCEPT ![p] = IF served THEN "done" ELSE "forward"]
       /\ UNCHANGED <<cacheTTL, mainPC, metricsVars, clientVars, origin, items, writer, now, sweepVars, req, cacheKey,
                      upstream, calls, keyVars>>

\* A response stored whatever its status.
shouldCache_AnyStatus(r, o) == isCacheable(r)

\* forwardRequest: whether the upstream response is stored
shouldCache(r, o) == isCacheable(r) /\ o.StatusCode = StatusOK

\* A transport failure answered like a read failure, with status 500.
forwardResponse_TransportAs500(r, o) ==
    CASE o.kind \in {"prepareError", "transportError", "readError"} ->
            HttpError("Failed to read upstream response", StatusInternalServerError)
      [] OTHER ->
            IF shouldCache(r, o) THEN NoResponse ELSE writeResponse(o)

\* forwardRequest: what the caller is sent when forwarding ends with outcome o
\* (nothing yet for a response that is stored first).
forwardResponse(r, o) ==
    CASE o.kind = "prepareError" ->
            HttpError("Internal server error", StatusInternalServerError)
      [] o.kind = "transportError" ->
            HttpError("Failed to reach upstream server", StatusBadGateway)
      [] o.kind = "readError" ->
            HttpError("Failed to read upstream response", StatusInternalServerError)
      [] OTHER ->
            IF shouldCache(r, o) THEN NoResponse ELSE writeResponse(o)

\* A forward that sends the upstream request a second time after a transport
\* failure.
Forward_RetryOnce(p, o) ==
    /\ pc[p] = "forward"
    /\ upstream' = [upstream EXCEPT ![p] = o]
    /\ calls' = [calls EXCEPT ![p] = IF o.kind = "prepareError" THEN @
                                    ELSE IF o.kind = "transportError" THEN @ + 2
                                    ELSE @ + 1]
    /\ response' = [response EXCEPT ![p] = forwardResponse(req[p], o)]
    /\ pc' = [pc EXCEPT ![p] =
          IF o.kind = "response" /\ shouldCache(req[p], o)
          THEN "cacheResponse" ELSE "done"]
    /\ UNCHANGED <<cacheTTL, mainPC, metricsVars, clientVars, origin, cacheVars, now, sweepVars, req, cacheKey, got, keyVars>>

\* forwardRequest up to cacheResponse: the upstream request is prepared and sent,
\* the response body is read; a failure is answered with http.Error, a response
\* that is not to be cached is relayed.
Forward(p, o) ==
    /\ pc[p] = "forward"
    /\ upstream' = [upstream EXCEPT ![p] = o]
    /\ calls' = [calls EXCEPT ![p] = IF o.kind = "prepareError" THEN @ ELSE @ + 1]
    /\ response' = [response EXCEPT ![p] = forwardResponse(req[p], o)]
    /\ pc' = [pc EXCEPT ![p] =
          IF o.kind = "response" /\ shouldCache(req[p], o)
          THEN "cacheResponse" ELSE "done"]
    /\ UNCHANGED <<cacheTTL, mainPC, metricsVars, clientVars, origin, cacheVars, now, sweepVars, req, cacheKey, got, keyVars>>

\* cacheResponse: cache.Set takes the write lock.
SetLock(p) ==
    /\ pc[p] = "cacheResponse"
    /\ CanLock
    /\ writer' = p
    /\ pc' = [pc EXCEPT ![p] = "inSet"]
    /\ UNCHANGED <<cacheTTL, mainPC, metricsVars, clientVars, origin, items, readers, now, sweepVars, req, cacheKey, got,
                   upstream, calls, response, keyVars>>

\* cacheResponse: cache.Set stores the entry and releases the lock; then
\* writeResponse relays the upstream response.
SetUnlock(p) ==
    /\ pc[p] = "inSet"
    /\ items' = CacheSet(items, cacheKey[p], cachedData(upstream[p]), now, cacheTTL)
    /\ writer' = NoOne
    /\ origin' = [k \in DOMAIN items' |->
                      IF k = cacheKey[p]
                      THEN [method |-> req[p].method, key |-> cacheKey[p],
                            resp |-> upstream[p], at |-> now]
                      ELSE origin[k]]
    /\ response' = [response EXCEPT ![p] = writeResponse(upstream[p])]
    /\ pc' = [pc EXCEPT ![p] = "done"]
    /\ UNCHANGED <<cacheTTL, mainPC, metricsVars, clientVars, readers, now, sweepVars, req, cacheKey, got, upstream,
                   calls, keyVars>>

\* Time passes and the ticker never fires.
Tick_NoTicker ==
    /\ now < MaxTime
    /\ now' = now + 1
    /\ UNCHANGED <<cacheTTL, mainPC, metricsVars, clientVars, origin, cacheVars, sweepVars,
                   handlerVars, keyVars>>

\* Time passes; the ticker of startCleanup fires every ttl/2 and keeps at most
\* one tick for a receiver that is not ready.
Tick ==
    /\ now < MaxTime
    /\ now' = now + 1
    /\ tickerC' = IF (now + 1) % (cacheTTL \div 2) = 0 THEN 1 ELSE tickerC
    /\ UNCHANGED <<cacheTTL, mainPC, metricsVars, clientVars, origin, cacheVars, cleanupPC,
                   handlerVars, keyVars>>

\* startCleanup: a tick is received.
CleanupRecv ==
    /\ cleanupPC = "wait"
    /\ tickerC = 1
    /\ tickerC' = 0
    /\ cleanupPC' = "cleanup"
    /\ UNCHANGED <<cacheTTL, mainPC, metricsVars, clientVars, origin, cacheVars, now, handlerVars, keyVars>>

\* cleanup takes the write lock.
CleanupLock ==
    /\ cleanupPC = "cleanup"
    /\ CanLock
    /\ writer' = CleanupTask
    /\ cleanupPC' = "inCleanup"
    /\ UNCHANGED <<cacheTTL, mainPC, metricsVars, clientVars, origin, items, readers, now, tickerC, handlerVars, keyVars>>

\* cleanup deletes the expired items and releases the lock.
CleanupUnlock ==
    /\ cleanupPC = "inCleanup"
    /\ items' = CacheCleanup(items, now)
    /\ origin' = [k \in DOMAIN items' \cap DOMAIN origin |-> origin[k]]
    /\ writer' = NoOne
    /\ cleanupPC' = "wait"
    /\ UNCHANGED <<cacheTTL, mainPC, metricsVars, clientVars, readers, now, tickerC, handlerVars, keyVars>>

\* After cache.New and proxy.New: an empty cache, the cleanup task waiting for
\* its first tick, no request in progress.
Init ==
    /\ cacheTTL \in ProxyTTLs
    /\ items = [k \in {} |-> NoData]
    /\ readers = {}
    /\ writer = NoOne
    /\ now = 0
    /\ tickerC = 0
    /\ cleanupPC = "wait"
    /\ pc = [p \in Procs |-> "idle"]
    /\ req = [p \in Procs |-> NoRequest]
    /\ cacheKey = [p \in Procs |-> NotComputed]
    /\ got = [p \in Procs |-> [data |-> NoData, found |-> FALSE]]
    /\ upstream = [p \in Procs |-> Outcome("none", NoUpstream)]
    /\ calls = [p \in Procs |-> 0]
    /\ response = [p \in Procs |-> NoResponse]
    /\ kin = [ttl |-> 0, method |-> <<>>, path |-> <<>>, a |-> <<>>, b |-> <<>>]
    /\ kout = [a |-> NotComputed, b |-> NotComputed]
    /\ cacheHits = 0
    /\ cacheMisses = 0
    /\ origin = [k \in {} |-> NoData]
    /\ cpc = [c \in Clients |-> "idle"]
    /\ carg = [c \in Clients |-> NoArgs]
    /\ cret = [c \in Clients |-> NoReturn]
    /\ mainPC = "serving"

Next ==
    \/ \E p \in Procs, r \in ProxyRequests : Arrive(p, r)
    \/ \E p \in Procs : GetRLock(p)
    \/ \E p \in Procs : GetRUnlock(p)
    \/ \E p \in Procs, o \in UpstreamOutcomes : Forward(p, o)
    \/ \E p \in Procs : SetLock(p)
    \/ \E p \in Procs : SetUnlock(p)
    \/ Tick
    \/ CleanupRecv
    \/ CleanupLock
    \/ CleanupUnlock

Spec == Init /\ [][Next]_vars

-----------------------------------------------------------------------------
(* The process: main waits for a signal, shuts the server down and returns   *)

\* main receives SIGINT or SIGTERM and calls srv.Shutdown: the server stops
\* accepting requests.
Interrupt ==
    /\ mainPC = "serving"
    /\ mainPC' = "shutdown"
    /\ UNCHANGED <<cacheTTL, metricsVars, clientVars, origin, cacheVars, now,
                   sweepVars, handlerVars, keyVars>>

\* srv.Shutdown returns once no request is in progress, and main returns: the
\* process exits, and with it every goroutine.
ShutdownReturns ==
    /\ mainPC = "shutdown"
    /\ \A p \in Procs : pc[p] \in {"idle", "done"}
    /\ mainPC' = "exited"
    /\ UNCHANGED <<cacheTTL, metricsVars, clientVars, origin, cacheVars, now,
                   sweepVars, handlerVars, keyVars>>

\* Requests are accepted until Shutdown is called, those in progress are
\* finished; the clock and the cleanup goroutine run until the process exits.
NextMain ==
    \/ mainPC = "serving" /\ \E p \in Procs, r \in ProxyRequests : Arrive(p, r)
    \/ mainPC # "exited" /\ \E p \in Procs : GetRLock(p)
    \/ mainPC # "exited" /\ \E p \in Procs : GetRUnlock(p)
    \/ mainPC # "exited" /\ \E p \in Procs, o \in UpstreamOutcomes : Forward(p, o)
    \/ mainPC # "exited" /\ \E p \in Procs : SetLock(p)
    \/ mainPC # "exited" /\ \E p \in Procs : SetUnlock(p)
    \/ mainPC # "exited" /\ Tick
    \/ mainPC # "exited" /\ CleanupRecv
    \/ mainPC # "exited" /\ CleanupLock
    \/ mainPC # "exited" /\ CleanupUnlock
    \/ Interrupt
    \/ ShutdownReturns

SpecMain == Init /\ [][NextMain]_vars

\* The proxy under fair scheduling: time passes, the cleanup goroutine runs, a
\* goroutine that holds the mutex releases it, and the sweep's Lock is granted
\* once the mutex has been free often enough (sync.Mutex hands the lock to a
\* waiter that would starve).
SpecLive ==
    /\ Spec
    /\ WF_vars(Tick)
    /\ WF_vars(CleanupRecv)
    /\ SF_vars(CleanupLock)
    /\ WF_vars(CleanupUnlock)
    /\ WF_vars(\E p \in Procs : GetRUnlock(p) \/ SetUnlock(p))

-----------------------------------------------------------------------------
(* Key generation alone                                                    *)

\* The inputs: a TTL and two requests of the same method and path, the second
\* a variant of the first.
InitKey ==
    /\ \E t \in KeyTTLs, qa \in KeyQueries :
         \E qb \in Variants(qa, t) :
            kin = [ttl |-> t, method |-> StrGET, path |-> StrPath, a |-> qa, b |-> qb]
    /\ kout = [a |-> NotComputed, b |-> NotComputed]
    /\ cacheTTL = kin.ttl
    /\ items = [k \in {} |-> NoData]
    /\ readers = {}
    /\ writer = NoOne
    /\ now = 0
    /\ tickerC = 0
    /\ cleanupPC = "wait"
    /\ pc = [p \in Procs |-> "idle"]
    /\ req = [p \in Procs |-> NoRequest]
    /\ cacheKey = [p \in Procs |-> NotComputed]
    /\ got = [p \in Procs |-> [data |-> NoData, found |-> FALSE]]
    /\ upstream = [p \in Procs |-> Outcome("none", NoUpstream)]
    /\ calls = [p \in Procs |-> 0]
    /\ response = [p \in Procs |-> NoResponse]
    /\ cacheHits = 0
    /\ cacheMisses = 0
    /\ origin = [k \in {} |-> NoData]
    /\ cpc = [c \in Clients |-> "idle"]
    /\ carg = [c \in Clients |-> NoArgs]
    /\ cret = [c \in Clients |-> NoReturn]
    /\ mainPC = "serving"

KeyRequest(q) == [method |-> kin.method, path |-> kin.path, rawQuery |-> q]

GenerateKeyA ==
    /\ kout.a = NotComputed
    /\ kout' = [kout EXCEPT !.a = generateCacheKey(KeyRequest(kin.a), cacheTTL)]
    /\ UNCHANGED <<cacheTTL, mainPC, metricsVars, clientVars, origin, cacheVars, now, sweepVars, handlerVars, kin>>

GenerateKeyB ==
    /\ kout.b = NotComputed
    /\ kout' = [kout EXCEPT !.b = generateCacheKey(KeyRequest(kin.b), cacheTTL)]
    /\ UNCHANGED <<cacheTTL, mainPC, metricsVars, clientVars, origin, cacheVars, now, sweepVars, handlerVars, kin>>

NextKey == GenerateKeyA \/ GenerateKeyB

SpecKey == InitKey /\ [][NextKey]_vars

-----------------------------------------------------------------------------
(* The cache alone: callers of Get, Set, Delete and Keys, and the sweep      *)

CallGet(c, k) ==
    /\ cpc[c] = "idle"
    /\ CanRLock
    /\ readers' = readers \cup {c}
    /\ cpc' = [cpc EXCEPT ![c] = "inGet"]
    /\ carg' = [carg EXCEPT ![c] = [key |-> k, value |-> NoValue]]
    /\ cret' = [cret EXCEPT ![c] = NoReturn]
    /\ UNCHANGED <<cacheTTL, mainPC, metricsVars, origin, items, writer, now, sweepVars,
                   handlerVars, keyVars>>

\* A Get that deletes the entry it finds expired.
ReturnGet_DeleteExpired(c) ==
    /\ cpc[c] = "inGet"
    /\ readers' = readers \ {c}
    /\ cret' = [cret EXCEPT ![c] = CacheGet(items, carg[c].key, now)]
    /\ items' = IF CacheGet(items, carg[c].key, now).found THEN items
                ELSE CacheDelete(items, carg[c].key)
    /\ cpc' = [cpc EXCEPT ![c] = "idle"]
    /\ UNCHANGED <<cacheTTL, mainPC, metricsVars, origin, writer, now, sweepVars,
                   handlerVars, keyVars, carg>>

ReturnGet(c) ==
    /\ cpc[c] = "inGet"
    /\ readers' = readers \ {c}
    /\ cret' = [cret EXCEPT ![c] = CacheGet(items, carg[c].key, now)]
    /\ cpc' = [cpc EXCEPT ![c] = "idle"]
    /\ UNCHANGED <<cacheTTL, mainPC, metricsVars, origin, items, writer, now, sweepVars,
                   handlerVars, keyVars, carg>>

CallSet(c, k, v) ==
    /\ cpc[c] = "idle"
    /\ CanLock
    /\ writer' = c
    /\ cpc' = [cpc EXCEPT ![c] = "inSet"]
    /\ carg' = [carg EXCEPT ![c] = [key |-> k, value |-> v]]
    /\ cret' = [cret EXCEPT ![c] = NoReturn]
    /\ UNCHANGED <<cacheTTL, mainPC, metricsVars, origin, items, readers, now, sweepVars,
                   handlerVars, keyVars>>

ReturnSet(c) ==
    /\ cpc[c] = "inSet"
    /\ items' = CacheSet(items, carg[c].key, carg[c].value, now, cacheTTL)
    /\ writer' = NoOne
    /\ cpc' = [cpc EXCEPT ![c] = "idle"]
    /\ UNCHANGED <<cacheTTL, mainPC, metricsVars, origin, readers, now, sweepVars,
                   handlerVars, keyVars, carg, cret>>

CallDelete(c, k) ==
    /\ cpc[c] = "idle"
    /\ CanLock
    /\ writer' = c
    /\ cpc' = [cpc EXCEPT ![c] = "inDelete"]
    /\ carg' = [carg EXCEPT ![c] = [key |-> k, value |-> NoValue]]
    /\ cret' = [cret EXCEPT ![c] = NoReturn]
    /\ UNCHANGED <<cacheTTL, mainPC, metricsVars, origin, items, readers, now, sweepVars,
                   handlerVars, keyVars>>

ReturnDelete(c) ==
    /\ cpc[c] = "inDelete"
    /\ items' = CacheDelete(items, carg[c].key)
    /\ writer' = NoOne
    /\ cpc' = [cpc EXCEPT ![c] = "idle"]
    /\ UNCHANGED <<cacheTTL, mainPC, metricsVars, origin, readers, now, sweepVars,
                   handlerVars, keyVars, carg, cret>>

CallKeys(c) ==
    /\ cpc[c] = "idle"
    /\ CanRLock
    /\ readers' = readers \cup {c}
    /\ cpc' = [cpc EXCEPT ![c] = "inKeys"]
    /\ carg' = [carg EXCEPT ![c] = NoArgs]
    /\ cret' = [cret EXCEPT ![c] = NoReturn]
    /\ UNCHANGED <<cacheTTL, mainPC, metricsVars, origin, items, writer, now, sweepVars,
                   handlerVars, keyVars>>

ReturnKeys(c, ks) ==
    /\ cpc[c] = "inKeys"
    /\ ks \in CacheKeys(items)
    /\ readers' = readers \ {c}
    /\ cret' = [cret EXCEPT ![c] = [keys |-> ks]]
    /\ cpc' = [cpc EXCEPT ![c] = "idle"]
    /\ UNCHANGED <<cacheTTL, mainPC, metricsVars, origin, items, writer, now, sweepVars,
                   handlerVars, keyVars, carg>>

NextCache ==
    \/ \E c \in Clients, k \in StoreKeys : CallGet(c, k)
    \/ \E c \in Clients : ReturnGet(c)
    \/ \E c \in Clients, k \in StoreKeys, v \in StoreValues : CallSet(c, k, v)
    \/ \E c \in Clients : ReturnSet(c)
    \/ \E c \in Clients, k \in StoreKeys : CallDelete(c, k)
    \/ \E c \in Clients : ReturnDelete(c)
    \/ \E c \in Clients : CallKeys(c)
    \/ \E c \in Clients, ks \in CacheKeys(items) : ReturnKeys(c, ks)
    \/ Tick
    \/ CleanupRecv
    \/ CleanupLock
    \/ CleanupUnlock

SpecCache == Init /\ [][NextCache]_vars

-----------------------------------------------------------------------------
(* Properties                                                              *)

\* Handler p leaves cache.Get in this step.
GetReturns(p) == pc[p] = "inGet" /\ pc'[p] # "inGet"

\* The entry for key k is in the store and has not expired.
Live(k) == k \in DOMAIN items /\ now <= items[k].Expiration

\* h is the header g with X-Cache set to the one value v.
IsHeaderPlusXCache(h, g, v) ==
    /\ DOMAIN h = DOMAIN g \cup {"X-Cache"}
    /\ h["X-Cache"] = <<v>>
    /\ \A n \in DOMAIN g \ {"X-Cache"} : h[n] = g[n]

\* The X-Cache values of the response handler p has sent, if any.
XCache(p) ==
    IF "X-Cache" \in DOMAIN response[p].headers
    THEN response[p].headers["X-Cache"] ELSE <<>>

\* C1. Cache hit path: a GET whose key has an unexpired entry in the store at
\* its lookup is answered with the stored status code, the stored body and the
\* stored headers with X-Cache: HIT, and makes no upstream call.  (Entries are
\* stored only for upstream 200 responses to GETs: C3, C4.)
CacheHitPath ==
    [][\A p \in Procs :
         (GetReturns(p) /\ Live(cacheKey[p])) =>
            LET e == items[cacheKey[p]].Value
            IN /\ pc'[p] = "done"
               /\ response'[p].sent
               /\ response'[p].status = e.status_code
               /\ Base64Encode(response'[p].body) = e.body
               /\ IsHeaderPlusXCache(response'[p].headers, e.headers, "HIT")
               /\ calls'[p] = 0]_vars

\* A GET was answered from the entry another GET stored for the same key, the
\* two requests differing in their start parameter.
CacheHitPath_Witness ==
    \E p, q \in Procs :
        /\ p # q
        /\ pc[p] = "done" /\ pc[q] = "done"
        /\ cacheKey[p] = cacheKey[q] /\ req[p] # req[q]
        /\ XCache(q) = <<"MISS">> /\ response[q].status = 200
        /\ got[p].found /\ calls[p] = 0
        /\ XCache(p) = <<"HIT">>
        /\ response[p].body = response[q].body
        /\ "Content-Type" \in DOMAIN response[p].headers

\* C2. Cache.Get reports found exactly when the key has an entry and the clock
\* has not passed its expiresAt (now <= expiresAt), and then returns the
\* entry's value; an absent key and an expired entry, swept or not, are both
\* reported not found.
GetFoundIffLive ==
    [][\A p \in Procs :
         GetReturns(p) =>
            /\ got'[p].found = Live(cacheKey[p])
            /\ Live(cacheKey[p]) => got'[p].data = items[cacheKey[p]].Value
            /\ ~Live(cacheKey[p]) => got'[p].data = NoData]_vars

\* A lookup found nothing although the (expired, not yet swept) entry is in the
\* store.
GetFoundIffLive_Witness ==
    \E p \in Procs :
        /\ pc[p] = "forward" /\ isCacheable(req[p])
        /\ ~got[p].found
        /\ cacheKey[p] \in DOMAIN items
        /\ now > items[cacheKey[p]].Expiration

\* The string s begins with the string pre.
HasPrefix(s, pre) == Len(s) >= Len(pre) /\ SubSeq(s, 1, Len(pre)) = pre

\* Handler p is serving a request whose method is not GET.
NonGet(p) == req[p] # NoRequest /\ req[p].method # StrGET

\* The store's keys all begin with "GET:".
KeysAreGetKeys == \A k \in DOMAIN items : HasPrefix(k, StrGET \o <<":">>)

\* C3, as claimed.  Non-cacheable bypass: a request whose method is not exactly
\* GET never reads the cache, always issues an upstream call and never writes
\* the cache; every key in the store begins with "GET:".
NonCacheableBypass_Claimed ==
    /\ \A p \in Procs :
          NonGet(p) =>
             /\ pc[p] \notin {"tryServe", "inGet", "cacheResponse", "inSet"}
             /\ ~got[p].found
             /\ pc[p] = "done" => calls[p] = 1
    /\ KeysAreGetKeys

\* C3, amended.  A request whose method is not exactly GET never reads the
\* cache and never writes it, and is always forwarded: it issues exactly one
\* upstream call unless the upstream request cannot be built, in which case it
\* issues none; every key in the store begins with "GET:".
NonCacheableBypass ==
    /\ \A p \in Procs :
          NonGet(p) =>
             /\ pc[p] \notin {"tryServe", "inGet", "cacheResponse", "inSet"}
             /\ ~got[p].found
             /\ pc[p] = "done" =>
                   /\ upstream[p].kind # "none"
                   /\ calls[p] = IF upstream[p].kind = "prepareError" THEN 0 ELSE 1
    /\ KeysAreGetKeys

\* A POST was relayed the upstream's 200 response after one upstream call, and
\* the store, which holds an entry, holds none under the POST's key.
NonCacheableBypass_Witness ==
    \E p \in Procs :
        /\ pc[p] = "done" /\ req[p].method = StrPOST
        /\ response[p].status = 200 /\ XCache(p) = <<"MISS">>
        /\ calls[p] = 1
        /\ DOMAIN items # {}
        /\ cacheKey[p] \notin DOMAIN items

\* Handler p's forwarding ends in this step.
ForwardReturns(p) == pc[p] = "forward" /\ pc'[p] # "forward"

\* C4. Non-200 bypass: a GET whose upstream response has a status other than
\* 200 is relayed with that status and body and leaves the store unchanged;
\* every entry in the store has status code 200.
NonOKBypass ==
    /\ [](\A k \in DOMAIN items : items[k].Value.status_code = 200)
    /\ [][\A p \in Procs :
            (/\ ForwardReturns(p)
             /\ req[p].method = StrGET
             /\ upstream'[p].kind = "response"
             /\ upstream'[p].StatusCode # 200) =>
                /\ pc'[p] = "done"
                /\ response'[p].sent
                /\ response'[p].status = upstream'[p].StatusCode
                /\ response'[p].body = upstream'[p].Body
                /\ items' = items]_vars

\* A GET was relayed a 503 and there is no entry under its key.
NonOKBypass_Witness ==
    \E p \in Procs :
        /\ pc[p] = "done" /\ req[p].method = StrGET
        /\ upstream[p].kind = "response" /\ upstream[p].StatusCode = 503
        /\ response[p].status = 503 /\ response[p].body = "unavailable"
        /\ cacheKey[p] \notin DOMAIN items

\* Handler p leaves cache.Set, and then writes its response, in this step.
SetReturns(p) == pc[p] = "inSet" /\ pc'[p] # "inSet"

\* The header name is Date, Connection, Transfer-Encoding or Keep-Alive in any
\* case.
Denylisted(n) ==
    ToLower(n) \in {"date", "connection", "transfer-encoding", "keep-alive"}

\* C5. Header filtering asymmetry: for a GET answered 200 by the upstream, the
\* stored entry has the upstream's headers except the four denylisted names,
\* and the MISS response relayed for it has all the upstream's headers (with
\* X-Cache: MISS); no stored entry and no HIT response has a denylisted header.
HeaderFiltering ==
    /\ [](/\ \A k \in DOMAIN items :
                \A n \in DOMAIN items[k].Value.headers : ~Denylisted(n)
          /\ \A p \in Procs :
                (response[p].sent /\ got[p].found) =>
                    \A n \in DOMAIN response[p].headers : ~Denylisted(n))
    /\ [][\A p \in Procs :
            SetReturns(p) =>
               LET up == upstream[p].Header
                   stored == items'[cacheKey[p]].Value.headers
               IN /\ DOMAIN stored = {n \in DOMAIN up : ~Denylisted(n)}
                  /\ \A n \in DOMAIN stored : stored[n] = up[n]
                  /\ IsHeaderPlusXCache(response'[p].headers, up, "MISS")]_vars

\* A GET was relayed the upstream's 200 response with its four denylisted
\* headers, and the entry now stored under its key has that body and none of
\* the four.
HeaderFiltering_Witness ==
    \E p \in Procs :
        /\ pc[p] = "done" /\ XCache(p) = <<"MISS">>
        /\ {"Date", "Connection", "Transfer-Encoding", "Keep-Alive"}
              \subseteq DOMAIN response[p].headers
        /\ cacheKey[p] \in DOMAIN items
        /\ items[cacheKey[p]].Value.body = Base64Encode(response[p].body)
        /\ DOMAIN items[cacheKey[p]].Value.headers = {"Content-Type"}

\* C6, as claimed.  Every response a handler sends carries X-Cache with value
\* HIT or MISS, whatever the outcome of the request.
EveryResponseHasXCache ==
    \A p \in Procs :
        response[p].sent =>
            XCache(p) \in {<<"HIT">>, <<"MISS">>}

\* C7. Upstream failure handling: a transport failure is answered 502, a
\* failure to read the upstream body 500; the failing step leaves the store as
\* it is, like every step of a handler other than the return of cache.Set,
\* which a failed request never reaches.
UpstreamFailureHandling ==
    /\ [](\A p \in Procs :
            pc[p] \in {"cacheResponse", "inSet"} => upstream[p].kind = "response")
    /\ [][\A p \in Procs :
            /\ (pc'[p] # pc[p] /\ pc[p] # "inSet") => items' = items
            /\ (ForwardReturns(p) /\ upstream'[p].kind = "transportError") =>
                  pc'[p] = "done" /\ response'[p].sent /\ response'[p].status = 502
            /\ (ForwardReturns(p) /\ upstream'[p].kind = "readError") =>
                  pc'[p] = "done" /\ response'[p].sent /\ response'[p].status = 500]_vars

\* One GET was answered 502 after a transport failure, another 500 after a read
\* failure, and the (expired) entry under their key is still in the store.
UpstreamFailureHandling_Witness ==
    \E p, q \in Procs :
        /\ pc[p] = "done" /\ upstream[p].kind = "transportError"
        /\ response[p].status = 502 /\ calls[p] = 1
        /\ pc[q] = "done" /\ upstream[q].kind = "readError"
        /\ response[q].status = 500
        /\ req[p].method = StrGET
        /\ cacheKey[p] \in DOMAIN items

\* The two query strings hold the same (name, value) pairs, each as often.
SameMultiset(qa, qb) ==
    \A e \in {qa[i] : i \in 1..Len(qa)} \cup {qb[i] : i \in 1..Len(qb)} :
        Cardinality({i \in 1..Len(qa) : qa[i] = e})
            = Cardinality({i \in 1..Len(qb) : qb[i] = e})

\* C8, as claimed.  Key determinism and order independence: for the same
\* method, path and TTL, two query strings with the same multiset of
\* (name, value) pairs get the same key, in whatever order they come.
KeyOrderIndependence ==
    (/\ kout.a # NotComputed
     /\ kout.b # NotComputed
     /\ SameMultiset(kin.a, kin.b)) => kout.a = kout.b

\* The key of a request with the one parameter name=value.
KeyOfOne(name, value) ==
    kin.method \o <<":">> \o kin.path \o <<":">> \o name \o <<"=">> \o value

\* The greatest multiple of m that is <= num/den, and the least that is >= it.
FloorMultiple(num, den, m) == (num \div (den * m)) * m
CeilMultiple(num, den, m) == -(((-num) \div (den * m)) * m)

\* The integers the time parameters are given.
IntegerInputs == (-MaxV..MaxV) \cup {900, 950, 1000, 1200}

\* C9, as claimed.  Round-down bucketing: with ttl > 0, an integer value v of
\* time or start, negative ones included, is replaced in the key by
\* floor(v / ttlSeconds) * ttlSeconds.
RoundDownBucketing ==
    \A name \in {StrTime, StrStart}, v \in IntegerInputs :
        (/\ kin.ttl > 0
         /\ kin.a = << <<name, FormatInt(v)>> >>
         /\ kout.a # NotComputed) =>
            kout.a = KeyOfOne(name, FormatInt(FloorMultiple(v, 1, kin.ttl)))

\* The values with a fraction the end parameter is given, in tenths.
TenthsInputs ==
    {[str |-> <<"9", "0", "0", ".", "5">>, tenths |-> 9005],
     [str |-> <<"0", ".", "5">>, tenths |-> 5],
     [str |-> <<"-", "0", ".", "5">>, tenths |-> -5],
     [str |-> <<"-", "4", ".", "5">>, tenths |-> -45]}

\* C10, as claimed.  Round-up bucketing: with ttl > 0, a numeric value v of end,
\* integer or with a fraction, negative ones included, is replaced in the key by
\* ceil(v / ttlSeconds) * ttlSeconds.
RoundUpBucketing ==
    /\ \A v \in IntegerInputs :
          (/\ kin.ttl > 0
           /\ kin.a = << <<StrEnd, FormatInt(v)>> >>
           /\ kout.a # NotComputed) =>
              kout.a = KeyOfOne(StrEnd, FormatInt(CeilMultiple(v, 1, kin.ttl)))
    /\ \A x \in TenthsInputs :
          (/\ kin.ttl > 0
           /\ kin.a = << <<StrEnd, x.str>> >>
           /\ kout.a # NotComputed) =>
              kout.a = KeyOfOne(StrEnd, FormatInt(CeilMultiple(x.tenths, 10, kin.ttl)))

\* Both keys of the pair of requests have been computed.
BothKeys == kout.a # NotComputed /\ kout.b # NotComputed

\* The two requests carry the one parameter name, with the integers v and w.
OneEach(name, v, w) ==
    /\ kin.a = << <<name, FormatInt(v)>> >>
    /\ kin.b = << <<name, FormatInt(w)>> >>

\* C11, as claimed.  Sub-TTL skew collapses: with ttl > 0, two requests of the
\* same method and path whose one time, start or end value differs by less
\* than one ttl get the same key.
SubTTLSkewCollapses_Claimed ==
    \A name \in {StrTime, StrStart, StrEnd}, v \in IntegerInputs :
        \A d \in SkewSteps(kin.ttl) :
            (/\ kin.ttl > 0
             /\ OneEach(name, v, v + d)
             /\ BothKeys) => kout.a = kout.b

\* The quotient of a by b > 0 with its fraction dropped.
TruncDiv(a, b) == IF a >= 0 THEN a \div b ELSE -((-a) \div b)

\* The bucket of the integer value v of the parameter name: the quotient by
\* ttl of v, for end of v + ttl - 1.
Bucket(name, v, ttl) ==
    IF name = StrEnd THEN TruncDiv(v + ttl - 1, ttl) ELSE TruncDiv(v, ttl)

\* C11.  Same bucket, same key: with ttl > 0, two requests of the same method
\* and path whose one time, start or end value differs by less than one ttl
\* get the same key when the two values fall into the same bucket, and
\* different keys when a bucket boundary lies between them.
SubTTLSkewCollapses ==
    \A name \in {StrTime, StrStart, StrEnd}, v \in IntegerInputs :
        \A d \in SkewSteps(kin.ttl) :
            (/\ kin.ttl > 0
             /\ OneEach(name, v, v + d)
             /\ BothKeys) =>
                (kout.a = kout.b
                    <=> Bucket(name, v, kin.ttl) = Bucket(name, v + d, kin.ttl))

\* start=900 and start=1199 at ttl 300 got the same key.
SubTTLSkewCollapses_Witness ==
    /\ kin.ttl = DefaultTTLSeconds
    /\ OneEach(StrStart, 900, 1199)
    /\ BothKeys
    /\ kout.a = kout.b
    /\ kout.a = KeyOfOne(StrStart, FormatInt(900))

\* The query part of a key of the pair's method and path.
QueryPart(key) == SubSeq(key, Len(kin.method) + Len(kin.path) + 3, Len(key))

\* The parts of s between its "&" characters.
SplitAmp(s) ==
    LET F[i \in 0..Len(s)] ==
            IF i = 0 THEN << <<>> >>
            ELSE IF s[i] = "&" THEN Append(F[i - 1], <<>>)
            ELSE [F[i - 1] EXCEPT ![Len(F[i - 1])] = Append(@, s[i])]
    IN F[Len(s)]

\* The values of the model's requests that are no numbers: "abc" and "".
NotNumbers == {StrAbc, <<>>}

\* C18, as claimed.  Invalid time parameters pass through: every value of
\* time, start or end that is no number, or is empty, stands unmodified in the
\* key as name=value, also when the parameter is repeated in the request.
InvalidTimePassThrough ==
    kout.a # NotComputed =>
        \A i \in 1..Len(kin.a) :
            (kin.a[i][1] \in {StrTime, StrStart, StrEnd} /\ kin.a[i][2] \in NotNumbers) =>
                LET parts == SplitAmp(QueryPart(kout.a))
                IN \E j \in 1..Len(parts) :
                      parts[j] = kin.a[i][1] \o <<"=">> \o kin.a[i][2]

\* The parameters of the query string q after time bucketing.
Bucketed(q, ttl) ==
    IF ttl > 0
    THEN roundTimeParameter(
             roundTimeParameter(
                 roundTimeParameter(Query(q), StrTime, ttl, FALSE),
                 StrStart, ttl, FALSE),
             StrEnd, ttl, TRUE)
    ELSE Query(q)

\* The parameters x and y hold the same names, each with the same multiset of
\* values.
SameValues(x, y) ==
    /\ DOMAIN x = DOMAIN y
    /\ \A n \in DOMAIN x : SortStrings(x[n]) = SortStrings(y[n])

\* C19, as claimed.  Key uniqueness: two requests of the same method and path
\* get the same key only if they hold the same multiset of (name, value) pairs
\* after time bucketing, also when a value contains "&" or "=".
KeyUniqueness ==
    (BothKeys /\ kout.a = kout.b) =>
        SameValues(Bucketed(kin.a, kin.ttl), Bucketed(kin.b, kin.ttl))

\* The step sends handler p's response.
Sends(p) == ~response[p].sent /\ response'[p].sent

\* C12, as claimed.  Hit/miss observations: the step that sends a response
\* with X-Cache: HIT adds one to the hit counter, the step that relays an
\* upstream response (X-Cache: MISS) adds one to the miss counter.
HitMissObservations ==
    [][\A p \in Procs :
         Sends(p) =>
            /\ (GetReturns(p) /\ XCache(p)' = <<"HIT">>) =>
                  cacheHits' = cacheHits + 1
            /\ (upstream'[p].kind = "response" /\ ~GetReturns(p)) =>
                  cacheMisses' = cacheMisses + 1]_vars

\* C20.  Bounded staleness: the status and body of every HIT are those of an
\* upstream 200 response to a GET with the same key, stored by a Set that
\* happened at most ttl before the lookup of the hit.
BoundedStaleness ==
    [][\A p \in Procs :
         (GetReturns(p) /\ response'[p].sent) =>
            /\ cacheKey[p] \in DOMAIN origin
            /\ LET o == origin[cacheKey[p]]
               IN /\ o.method = StrGET
                  /\ o.key = cacheKey[p]
                  /\ o.resp.kind = "response"
                  /\ o.resp.StatusCode = 200
                  /\ response'[p].status = o.resp.StatusCode
                  /\ response'[p].body = o.resp.Body
                  /\ o.at <= now
                  /\ now - o.at <= cacheTTL]_vars

\* A HIT was served exactly one ttl after the Set of the entry, with the body
\* the upstream sent then, while the other handler has stored nothing since.
BoundedStaleness_Witness ==
    \E p \in Procs :
        /\ pc[p] = "done"
        /\ XCache(p) = <<"HIT">>
        /\ cacheKey[p] \in DOMAIN origin
        /\ now = origin[cacheKey[p]].at + cacheTTL
        /\ response[p].body = origin[cacheKey[p]].resp.Body
        /\ got[p].found

\* C15, as claimed.  No single-flight, no retries: a request that ends in a
\* HIT has issued no upstream call, every other request exactly one.
OneUpstreamCall_Claimed ==
    \A p \in Procs :
        pc[p] = "done" =>
            calls[p] = IF XCache(p) = <<"HIT">> THEN 0 ELSE 1

\* C15.  No single-flight, no retries: a request that ends in a HIT has issued
\* no upstream call, one whose upstream request could not be built none
\* either, every other request exactly one; and a request that is to be
\* forwarded can be, whatever the other requests in flight are doing.
OneUpstreamCall ==
    \A p \in Procs :
        /\ pc[p] = "done" =>
              calls[p] = IF XCache(p) = <<"HIT">> \/ upstream[p].kind = "prepareError"
                         THEN 0 ELSE 1
        /\ pc[p] \in {"cacheResponse", "inSet"} => calls[p] = 1
        /\ pc[p] = "forward" => ENABLED (\E o \in UpstreamOutcomes : Forward(p, o))

\* Two GETs with the same key both missed before either had stored: each has
\* made its own upstream call and holds its own response, nothing is stored yet.
OneUpstreamCall_Witness ==
    \E p, q \in Procs :
        /\ p # q
        /\ pc[p] = "cacheResponse" /\ pc[q] = "cacheResponse"
        /\ cacheKey[p] = cacheKey[q]
        /\ ~got[p].found /\ ~got[q].found
        /\ calls[p] = 1 /\ calls[q] = 1
        /\ upstream[p].Body # upstream[q].Body
        /\ cacheKey[p] \notin DOMAIN items

\* Caller c leaves the Cache method m in this step.
Returns(c, m) == cpc[c] = m /\ cpc'[c] = "idle"

\* The sweep finishes in this step.
SweepReturns == cleanupPC = "inCleanup" /\ cleanupPC' = "wait"

\* C13.  Set is an unconditional last-write-wins overwrite: after Set(key, v)
\* at time t the store holds v under key with expiresAt = t + ttl, whatever was
\* there before, every other key is as it was, and Set returns nothing; of two
\* callers that store under the same key the later one's entry is left.
SetOverwrites ==
    [][\A c \in Clients :
         Returns(c, "inSet") =>
            /\ DOMAIN items' = DOMAIN items \cup {carg[c].key}
            /\ items'[carg[c].key] =
                  [Value |-> carg[c].value, Expiration |-> now + cacheTTL]
            /\ \A k \in DOMAIN items \ {carg[c].key} : items'[k] = items[k]
            /\ cret'[c] = NoReturn]_vars

\* Both callers have stored under key "a", "v1" first and "v2" a second later:
\* the entry is "v2" with the later expiry, and the older entry under "b" is
\* still there.
SetOverwrites_Witness ==
    /\ cpc = [c \in Clients |-> "idle"]
    /\ carg["c1"] = [key |-> <<"a">>, value |-> "v1"]
    /\ carg["c2"] = [key |-> <<"a">>, value |-> "v2"]
    /\ DOMAIN items = StoreKeys
    /\ items[<<"a">>] = [Value |-> "v2", Expiration |-> now + cacheTTL]
    /\ items[<<"b">>].Expiration < now
    /\ now > 1

\* C14.  Get never changes the store, and neither does Keys: an entry, expired
\* or not, changes or leaves the store only when Set, Delete or the sweep
\* returns; Keys returns exactly the keys in the store, each once, expired
\* ones included.
GetLeavesStore ==
    [][/\ \A c \in Clients :
            /\ (Returns(c, "inGet") \/ Returns(c, "inKeys")) => items' = items
            /\ Returns(c, "inKeys") =>
                  /\ {cret'[c].keys[i] : i \in 1..Len(cret'[c].keys)} = DOMAIN items
                  /\ Len(cret'[c].keys) = Cardinality(DOMAIN items)
       /\ items' # items =>
            \/ SweepReturns
            \/ \E c \in Clients : Returns(c, "inSet") \/ Returns(c, "inDelete")]_vars

\* Keys has returned a key whose entry has expired and is still in the store,
\* while Get has reported that key as not found.
GetLeavesStore_Witness ==
    \E c, d \in Clients, k \in StoreKeys :
        /\ cpc[c] = "idle" /\ cpc[d] = "idle"
        /\ "keys" \in DOMAIN cret[c]
        /\ k \in {cret[c].keys[i] : i \in 1..Len(cret[c].keys)}
        /\ carg[d].key = k
        /\ "found" \in DOMAIN cret[d] /\ ~cret[d].found
        /\ k \in DOMAIN items /\ now > items[k].Expiration

\* C16.  The sweep removes all and only expired entries: after a sweep at time
\* now the store holds exactly the entries with expiresAt >= now, unchanged, so
\* a Get at that time returns what it returned before the sweep.
SweepRemovesExpired ==
    [][SweepReturns =>
         /\ DOMAIN items' = {k \in DOMAIN items : items[k].Expiration >= now}
         /\ \A k \in DOMAIN items' : items'[k] = items[k]
         /\ \A k \in StoreKeys :
               CacheGet(items', k, now) = CacheGet(items, k, now)]_vars

\* After a sweep at time 3: the entry under "b" that expires at 3 is still in
\* the store, the one the first caller had stored under "a" is not.
SweepRemovesExpired_Witness ==
    /\ cleanupPC = "wait" /\ tickerC = 0 /\ writer = NoOne
    /\ now = 3
    /\ DOMAIN items = {<<"b">>}
    /\ items[<<"b">>].Expiration = now
    /\ carg["c1"] = [key |-> <<"a">>, value |-> "v1"]
    /\ carg["c2"] = [key |-> <<"b">>, value |-> "v2"]
    /\ cpc = [c \in Clients |-> "idle"]

\* The keys the proxy's requests get.
ProxyKeys ==
    {generateCacheKey(r, t) : r \in {x \in ProxyRequests : isCacheable(x)},
                             t \in ProxyTTLs}

\* The store holds under k an entry that expires before the end of the clock's
\* range.
HoldsEarly(k) == k \in DOMAIN items /\ items[k].Expiration < MaxTime

\* C17.  Entry lifecycle: an entry of the proxy's cache leaves the store only
\* when the sweep removes it, after its expiry (request handling never deletes),
\* and an entry that expires before the end of the clock's range is eventually
\* removed by the sweep or replaced by a Set with a later expiry.
EntryLifecycle ==
    /\ [][\A k \in DOMAIN items :
            k \notin DOMAIN items' => SweepReturns /\ now > items[k].Expiration]_vars
    /\ \A k \in ProxyKeys : HoldsEarly(k) ~> ~HoldsEarly(k)

\* A GET was answered from the cache, and the entry that served it is no
\* longer in the store: the sweep has removed it.
EntryLifecycle_Witness ==
    \E p \in Procs :
        /\ pc[p] = "done"
        /\ XCache(p) = <<"HIT">>
        /\ cacheKey[p] \notin DOMAIN items
        /\ cleanupPC = "wait"

\* The callers inside the critical section of Get or Keys, and the callers and
\* the sweep inside the critical section of Set, Delete or cleanup.
InsideRead == {c \in Clients : cpc[c] \in {"inGet", "inKeys"}}
InsideWrite ==
    {c \in Clients : cpc[c] \in {"inSet", "inDelete"}}
        \cup (IF cleanupPC = "inCleanup" THEN {CleanupTask} ELSE {})

\* C21.  Reader/writer exclusion on the store: while a Set, a Delete or a
\* sweep is inside its critical section, no Get, Keys or other Set, Delete or
\* sweep is inside its own; the items map changes only in a step of the one
\* writer inside, and Get and Keys return from inside theirs.
ReaderWriterExclusion ==
    /\ [](/\ Cardinality(InsideWrite) <= 1
          /\ InsideWrite # {} => InsideRead = {}
          /\ readers = InsideRead
          /\ writer = (IF InsideWrite = {} THEN NoOne
                       ELSE CHOOSE w \in InsideWrite : TRUE))
    /\ [][/\ items' # items => (InsideWrite # {} /\ InsideWrite' = {})
          /\ \A c \in Clients : cret'[c] # cret[c] /\ cret'[c] # NoReturn =>
                c \in InsideRead]_vars

\* Two callers are inside their read critical sections at the same time, one in
\* Get and one in Keys, while the sweep waits for the mutex.
ReaderWriterExclusion_Witness ==
    /\ cpc["c1"] = "inGet"
    /\ cpc["c2"] = "inKeys"
    /\ cleanupPC = "cleanup"
    /\ DOMAIN items = StoreKeys

\* The cleanup goroutine begins a sweep in this step: a tick is received and
\* cleanup is called.
SweepBegins == cleanupPC = "wait" /\ cleanupPC' = "cleanup"

\* C22, as claimed.  The background sweep is stoppable at shutdown: once main
\* has begun the graceful shutdown, the sweep task is stopped and begins no
\* further sweep.
SweepStopsAtShutdown ==
    [][mainPC # "serving" => ~SweepBegins]_vars

=============================================================================
